---- MODULE Spec2Model ----
(***************************************************************************)
(* Adapter discovery, adapter store and scrape facade of the coloring-book *)
(* service.  Confidences are integers in hundredths (0.5 is 50).           *)
(***************************************************************************)
EXTENDS Integers, Sequences, FiniteSets, TLC

\* ------------------------------------------------------------------ bounds
MaxUrls == 2
MaxNow == 2

\* -------------------------------------------------------- shared constants
UNDEFINED == "<undefined>"

NoResult == [strategy |-> "none", urlCount |-> 0, confidence |-> 0,
             selector |-> UNDEFINED, pattern |-> UNDEFINED]

\* the absent adapter (undefined)
NoAdapter == [id |-> -1, domains |-> <<>>, strategy |-> "none",
              selector |-> UNDEFINED, pattern |-> UNDEFINED, confidence |-> 0,
              dateAdded |-> -1, description |-> UNDEFINED]

\* confidences a detector (or a stand-in for one) may report, in hundredths
ConfidenceValues == {40, 50, 90}

\* ------------------------------------------------------------- variables
VARIABLES
  now,             \* the clock read by Date.now() and new Date()
  dpc,             \* position of the discoverAdapter call
  urlGiven,        \* whether the call got a source url
  timestamp,       \* timestamp taken on entry
  reportResults,   \* report.results
  jsPromise,       \* the dynamic detector's promise
  discovered,      \* what discoverAdapter returned
  file,            \* the adapter store file on disk
  call,            \* the most recent call on the store or the facade, with its outcome
  removed,         \* ids whose removal returned true, with no add of that id since
  scrape,          \* the most recent getPdfUrlsWithAdapters call, its fetches and its result
  jpc,             \* position of the detectWithJavaScript call
  browser,         \* the browser handle of that call
  jsPage,          \* the page handle of that call
  jsLinks,         \* how many PDF links page.evaluate found in the DOM
  jsCaught,        \* whether the catch block of that call ran
  jsReturn,        \* the value the call is about to return
  report,          \* what discoverAdapterWithReport returned
  returned,        \* the ids of the adapters the discoverAdapter calls returned so far
  markup,          \* the hrefs of the PDF anchors of a page, in document order
  detection,       \* the last detector run on that page, with its URL list
  writers,         \* the overlapping addAdapter calls: position and loaded store
  lastSaved        \* the call whose write to the file ran last

discoveryVars == <<now, dpc, urlGiven, timestamp, reportResults, jsPromise, discovered>>
storeVars == <<file, call, removed>>
facadeVars == <<scrape>>
detectorVars == <<jpc, browser, jsPage, jsLinks, jsCaught, jsReturn>>
reportVars == <<report, returned>>
pageVars == <<markup, detection>>
writerVars == <<writers, lastSaved>>

\* ------------------------------------------------------ detector outcomes
\* detectWithSelectors: a result names the selector that matched
SelectorOutcomes ==
  {NoResult} \cup
  {[strategy |-> "selector", urlCount |-> n, confidence |-> c,
    selector |-> "a[href*=.pdf]", pattern |-> UNDEFINED]
     : n \in 1..MaxUrls, c \in ConfidenceValues}

\* detectWithPatterns: a result may or may not carry an inferred pattern
PatternOutcomes ==
  {NoResult} \cup
  {[strategy |-> "pattern", urlCount |-> n, confidence |-> c,
    selector |-> UNDEFINED, pattern |-> p]
     : n \in 1..MaxUrls, c \in ConfidenceValues, p \in {UNDEFINED, "/pdf/pageN.pdf"}}

\* detectWithJavaScript: resolves to a result or to undefined, or rejects
JavaScriptOutcomes ==
  {NoResult} \cup
  {[strategy |-> "javascript", urlCount |-> n, confidence |-> c,
    selector |-> UNDEFINED, pattern |-> UNDEFINED]
     : n \in 1..MaxUrls, c \in ConfidenceValues}

Rejected == [strategy |-> "rejected", urlCount |-> 0, confidence |-> 0,
             selector |-> UNDEFINED, pattern |-> UNDEFINED]

NotLaunched == [strategy |-> "notLaunched", urlCount |-> 0, confidence |-> 0,
                selector |-> UNDEFINED, pattern |-> UNDEFINED]

\* ------------------------------------------------------ discovery engine
MINIMUM_CONFIDENCE == 50

strategyPriority(s) ==
  CASE s = "javascript" -> 3
    [] s = "pattern" -> 2
    [] s = "selector" -> 1
    [] OTHER -> 0

\* a comparator that forgets the strategy priority
CompareResultsNoPriority(a, b) ==
  IF b.confidence # a.confidence THEN b.confidence - a.confidence
  ELSE IF b.urlCount # a.urlCount THEN b.urlCount - a.urlCount
  ELSE 0

\* the comparator passed to validResults.sort: negative puts a first
CompareResults(a, b) ==
  IF b.confidence # a.confidence THEN b.confidence - a.confidence
  ELSE IF b.urlCount # a.urlCount THEN b.urlCount - a.urlCount
  ELSE strategyPriority(b.strategy) - strategyPriority(a.strategy)

\* Array.prototype.sort is stable: x goes after every element that does not
\* compare greater than it
RECURSIVE InsertResult(_, _)
InsertResult(x, s) ==
  IF s = <<>> THEN <<x>>
  ELSE IF CompareResults(Head(s), x) <= 0 THEN <<Head(s)>> \o InsertResult(x, Tail(s))
  ELSE <<x>> \o s

RECURSIVE SortResults(_)
SortResults(s) ==
  IF s = <<>> THEN <<>>
  ELSE InsertResult(s[Len(s)], SortResults(SubSeq(s, 1, Len(s) - 1)))

\* a filter that also lets low-confidence results through
ValidResultsNoFloor(results) == results

\* report.results.filter(r => r.confidence >= MINIMUM_CONFIDENCE)
ValidResults(results) ==
  SelectSeq(results, LAMBDA r : r.confidence >= MINIMUM_CONFIDENCE)

\* extractDomainFromUrl: the hostname of the url, or nothing
DiscoveryHost == <<"example", "com">>
extractDomainFromUrl(given) == IF given THEN <<DiscoveryHost>> ELSE <<>>

\* the adapter object built from the best result
BuildAdapter(best, given, ts, clock) ==
  [id |-> clock,
   domains |-> extractDomainFromUrl(given),
   strategy |-> best.strategy,
   selector |-> best.selector,
   pattern |-> best.pattern,
   confidence |-> best.confidence,
   dateAdded |-> ts,
   description |-> "Auto-discovered using " \o best.strategy \o " strategy"]

PushResult(results, r) == IF r.strategy = "none" THEN results ELSE Append(results, r)

\* entry: take the timestamp, run the two synchronous detectors, push results
DiscoverEntry(selectorOutcomes, patternOutcomes) ==
  /\ dpc = "idle"
  /\ \E given \in BOOLEAN, sel \in selectorOutcomes, pat \in patternOutcomes :
       /\ urlGiven' = given
       /\ reportResults' = PushResult(PushResult(<<>>, sel), pat)
  /\ timestamp' = now
  /\ jsPromise' = NotLaunched
  /\ discovered' = NoAdapter
  /\ dpc' = "launch"
  /\ UNCHANGED <<now, storeVars, facadeVars, detectorVars, reportVars, pageVars, writerVars>>

\* the entry with detector outcomes of every confidence, as stand-ins give them
DiscoverStart == DiscoverEntry(SelectorOutcomes, PatternOutcomes)

\* jsResultPromise = url ? detectWithJavaScript(url) : Promise.resolve(undefined)
\* with a stand-in for the detector
DiscoverLaunchJs ==
  /\ dpc = "launch"
  /\ \E out \in JavaScriptOutcomes \cup {Rejected} :
       jsPromise' = IF urlGiven THEN out ELSE NoResult
  /\ dpc' = "await"
  /\ UNCHANGED <<now, urlGiven, timestamp, reportResults, discovered, storeVars, facadeVars, detectorVars, reportVars, pageVars, writerVars>>

\* await jsResultPromise inside try/catch; a rejection is swallowed
DiscoverAwaitJs ==
  /\ dpc = "await"
  /\ reportResults' = IF jsPromise.strategy = "rejected" THEN reportResults
                      ELSE PushResult(reportResults, jsPromise)
  /\ dpc' = "rank"
  /\ UNCHANGED <<now, urlGiven, timestamp, jsPromise, discovered, storeVars, facadeVars, detectorVars, reportVars, pageVars, writerVars>>

\* filter, sort, build the adapter from validResults[0]
DiscoverRank ==
  /\ dpc = "rank"
  /\ LET valid == ValidResults(reportResults)
         sorted == SortResults(valid)
     IN discovered' = IF Len(valid) = 0 THEN NoAdapter
                      ELSE BuildAdapter(sorted[1], urlGiven, timestamp, now)
  /\ dpc' = "done"
  /\ UNCHANGED <<now, urlGiven, timestamp, reportResults, jsPromise, storeVars, facadeVars, detectorVars, reportVars, pageVars, writerVars>>

\* the clock advances
Tick ==
  /\ now < MaxNow
  /\ now' = now + 1
  /\ UNCHANGED <<dpc, urlGiven, timestamp, reportResults, jsPromise, discovered, storeVars, facadeVars, detectorVars, reportVars, pageVars, writerVars>>

\* ------------------------------------------------- the detectors themselves
\* the most links a page holds
MaxFound == 8

Min(a, b) == IF a < b THEN a ELSE b

\* a selector confidence without its cap
SelectorConfidenceUncapped(count) == 65 + count * 10

\* Math.min(0.99, 0.65 + bestMatch.count * 0.1)
SelectorConfidence(count) == Min(99, 65 + count * 10)

\* detectWithSelectors on markup whose best selector matches count distinct links
detectWithSelectors(count) ==
  IF count = 0 THEN NoResult
  ELSE [strategy |-> "selector", urlCount |-> count,
        confidence |-> SelectorConfidence(count),
        selector |-> "a[href$=.pdf]", pattern |-> UNDEFINED]

\* findPattern on n links of which maxCount share the most common simplified
\* path: nothing under two links or under 50% coverage
findPattern(n, maxCount) ==
  IF n < 2 THEN UNDEFINED
  ELSE IF 2 * maxCount >= n THEN "/pdf/pageN.pdf"
  ELSE UNDEFINED

\* a pattern confidence that starts from a lower base
calculateConfidenceLowBase(n, pattern) ==
  LET base == Min(95, 40 + n * 5)
  IN IF pattern # UNDEFINED THEN Min(95, base + 15) ELSE base

\* calculateConfidence: base from the number of links, boost for a pattern
calculateConfidence(n, pattern) ==
  LET base == Min(95, 50 + n * 5)
  IN IF pattern # UNDEFINED THEN Min(95, base + 15) ELSE base

\* detectWithPatterns on markup holding n distinct links
detectWithPatterns(n, maxCount) ==
  IF n = 0 THEN NoResult
  ELSE LET pattern == findPattern(n, maxCount)
       IN [strategy |-> "pattern", urlCount |-> n,
           confidence |-> calculateConfidence(n, pattern),
           selector |-> UNDEFINED, pattern |-> pattern]

\* a dynamic confidence with a lower cap
JavaScriptConfidenceLowCap(n) == Min(90, 85 + n * 2)

\* Math.min(0.98, 0.85 + allUrls.length * 0.02)
JavaScriptConfidence(n) == Min(98, 85 + n * 2)

\* the value detectWithJavaScript returns from its try block
JavaScriptResult(n) ==
  IF n = 0 THEN NoResult
  ELSE [strategy |-> "javascript", urlCount |-> n,
        confidence |-> JavaScriptConfidence(n),
        selector |-> UNDEFINED, pattern |-> UNDEFINED]

DetectedSelectorOutcomes == {detectWithSelectors(n) : n \in 0..MaxFound}

\* of n links, between one and n share the most common simplified path
DetectedPatternOutcomes ==
  {NoResult} \cup
  UNION {{detectWithPatterns(n, k) : k \in 1..n} : n \in 1..MaxFound}

\* a promise that has not settled yet
Pending == [strategy |-> "pending", urlCount |-> 0, confidence |-> 0,
            selector |-> UNDEFINED, pattern |-> UNDEFINED]

\* jsResultPromise = url ? detectWithJavaScript(url) : Promise.resolve(undefined)
\* with the detector itself; the url handed over parses, so isValidUrl passes
DiscoverLaunchDetector ==
  /\ dpc = "launch"
  /\ IF urlGiven
     THEN /\ jpc' = "launch"
          /\ jsPromise' = Pending
          /\ dpc' = "running"
     ELSE /\ jpc' = jpc
          /\ jsPromise' = NoResult
          /\ dpc' = "await"
  /\ UNCHANGED <<now, urlGiven, timestamp, reportResults, discovered, storeVars,
                 facadeVars, browser, jsPage, jsLinks, jsCaught, jsReturn, reportVars, pageVars, writerVars>>

\* a catch block that lets the error out
CaughtValueRethrown == Rejected

\* catch (error) { ... return undefined }
CaughtValue == NoResult

\* an awaited step inside the try block throws: the catch block sets the
\* return value and control passes to the finally block
JsCatch ==
  /\ jsCaught' = TRUE
  /\ jsReturn' = CaughtValue
  /\ jpc' = "finallyPage"

\* browser = await chromium.launch({ headless })
JsLaunch ==
  /\ jpc = "launch"
  /\ \/ /\ browser' = "launched"
        /\ jpc' = "newContext"
        /\ UNCHANGED <<jsCaught, jsReturn, pageVars, writerVars>>
     \/ /\ JsCatch
        /\ UNCHANGED browser
  /\ UNCHANGED <<discoveryVars, storeVars, facadeVars, jsPage, jsLinks, reportVars, pageVars, writerVars>>

\* const context = await browser.newContext()
JsNewContext ==
  /\ jpc = "newContext"
  /\ \/ /\ jpc' = "newPage"
        /\ UNCHANGED <<jsCaught, jsReturn, pageVars, writerVars>>
     \/ JsCatch
  /\ UNCHANGED <<discoveryVars, storeVars, facadeVars, browser, jsPage, jsLinks, reportVars, pageVars, writerVars>>

\* page = await context.newPage(); page.setDefaultTimeout(timeout)
JsNewPage ==
  /\ jpc = "newPage"
  /\ \/ /\ jsPage' = "open"
        /\ jpc' = "goto"
        /\ UNCHANGED <<jsCaught, jsReturn, pageVars, writerVars>>
     \/ /\ JsCatch
        /\ UNCHANGED jsPage
  /\ UNCHANGED <<discoveryVars, storeVars, facadeVars, browser, jsLinks, reportVars, pageVars, writerVars>>

\* await page.goto(url, { waitUntil: 'networkidle', timeout }): the network
\* goes idle in time, or the call rejects with a navigation or timeout error
JsGoto ==
  /\ jpc = "goto"
  /\ \E outcome \in {"idle", "error", "timeout"} :
       IF outcome = "idle"
       THEN jpc' = "wait" /\ UNCHANGED <<jsCaught, jsReturn, pageVars, writerVars>>
       ELSE JsCatch
  /\ UNCHANGED <<discoveryVars, storeVars, facadeVars, browser, jsPage, jsLinks, reportVars, pageVars, writerVars>>

\* await page.waitForTimeout(waitTime): the timer fires, or the page is gone
JsWait ==
  /\ jpc = "wait"
  /\ \/ /\ jpc' = "evaluate"
        /\ UNCHANGED <<jsCaught, jsReturn, pageVars, writerVars>>
     \/ JsCatch
  /\ UNCHANGED <<discoveryVars, storeVars, facadeVars, browser, jsPage, jsLinks, reportVars, pageVars, writerVars>>

\* const pdfUrls = await page.evaluate(...): the call takes no timeout, and
\* the default timeout set on the page governs navigations and waits only, so
\* a page whose script never yields leaves the promise pending for good
JsEvaluate ==
  /\ jpc = "evaluate"
  /\ \/ /\ \E n \in 0..MaxFound : jsLinks' = n
        /\ jpc' = "content"
        /\ UNCHANGED <<jsCaught, jsReturn, pageVars, writerVars>>
     \/ /\ JsCatch
        /\ UNCHANGED jsLinks
     \/ /\ jpc' = "hung"
        /\ UNCHANGED <<jsLinks, jsCaught, jsReturn, pageVars, writerVars>>
  /\ UNCHANGED <<discoveryVars, storeVars, facadeVars, browser, jsPage, reportVars, pageVars, writerVars>>

\* const pageContent = await page.content(), the text scan, the union of the
\* two lists and the return statement of the try block
JsContent ==
  /\ jpc = "content"
  /\ \/ /\ \E n \in jsLinks..MaxFound : jsReturn' = JavaScriptResult(n)
        /\ jpc' = "finallyPage"
        /\ UNCHANGED jsCaught
     \/ JsCatch
     \/ /\ jpc' = "hung"
        /\ UNCHANGED <<jsCaught, jsReturn, pageVars, writerVars>>
  /\ UNCHANGED <<discoveryVars, storeVars, facadeVars, browser, jsPage, jsLinks, reportVars, pageVars, writerVars>>

\* a finally block that closes nothing
CloseHandleNever(handle) == handle

\* if (handle) { try { await handle.close() } catch {} }
CloseHandle(handle) == IF handle = "null" THEN handle ELSE "closeInvoked"

\* finally: the page
JsFinallyPage ==
  /\ jpc = "finallyPage"
  /\ jsPage' = CloseHandle(jsPage)
  /\ jpc' = "finallyBrowser"
  /\ UNCHANGED <<discoveryVars, storeVars, facadeVars, browser, jsLinks, jsCaught,
                 jsReturn, reportVars, pageVars, writerVars>>

\* finally: the browser; the call then resolves and discoverAdapter's await
\* gets its value
JsFinallyBrowser ==
  /\ jpc = "finallyBrowser"
  /\ browser' = CloseHandle(browser)
  /\ jpc' = "resolved"
  /\ jsPromise' = jsReturn
  /\ dpc' = "await"
  /\ UNCHANGED <<now, urlGiven, timestamp, reportResults, discovered, storeVars,
                 facadeVars, jsPage, jsLinks, jsCaught, jsReturn, reportVars, pageVars, writerVars>>

\* ------------------------------------------------------------- report mode
NoReport == [called |-> FALSE, results |-> <<>>, bestResult |-> NoResult]

\* the comparator of discoverAdapterWithReport: confidence alone
CompareReport(a, b) == b.confidence - a.confidence

RECURSIVE InsertReport(_, _)
InsertReport(x, s) ==
  IF s = <<>> THEN <<x>>
  ELSE IF CompareReport(Head(s), x) <= 0 THEN <<Head(s)>> \o InsertReport(x, Tail(s))
  ELSE <<x>> \o s

RECURSIVE SortReport(_)
SortReport(s) ==
  IF s = <<>> THEN <<>>
  ELSE InsertReport(s[Len(s)], SortReport(SubSeq(s, 1, Len(s) - 1)))

\* discoverAdapterWithReport on the detector outcomes of the discovery call:
\* the results in push order, and the first of the valid ones by confidence
discoverAdapterWithReport(results) ==
  LET valid == ValidResults(results)
  IN [called |-> TRUE,
      results |-> results,
      bestResult |-> IF Len(valid) > 0 THEN SortReport(valid)[1] ELSE NoResult]

DiscoverAdapterWithReportCall ==
  /\ dpc = "done"
  /\ ~report.called
  /\ report' = discoverAdapterWithReport(reportResults)
  /\ UNCHANGED <<discoveryVars, storeVars, facadeVars, detectorVars, returned, pageVars, writerVars>>

\* ----------------------------------------------------- one call after another
\* how many discovery calls a caller makes
MaxCalls == 2

\* the caller takes the adapter the call returned, of which the id is kept
\* here, and is free to call again; the locals of the finished call are gone
DiscoverReturn ==
  /\ dpc = "done"
  /\ Len(returned) < MaxCalls
  /\ returned' = Append(returned, discovered.id)
  /\ dpc' = "idle"
  /\ urlGiven' = FALSE
  /\ timestamp' = 0
  /\ reportResults' = <<>>
  /\ jsPromise' = NotLaunched
  /\ discovered' = NoAdapter
  /\ UNCHANGED <<now, storeVars, facadeVars, detectorVars, report, pageVars, writerVars>>

\* ------------------------------------------------------------ adapter store
\* ids of hand-registered adapters
MaxIds == 2
Ids == 1..MaxIds

AdapterKeys == {"id", "domains", "strategy", "selector", "pattern", "confidence",
                "dateAdded", "description"}
OptionalKeys == {"selector", "pattern", "description"}

\* host names, as sequences of labels
ExampleCom == <<"example", "com">>
CdnExampleCom == <<"cdn", "example", "com">>
WwwExampleCom == <<"www", "example", "com">>
OtherCom == <<"other", "com">>
ExampleOrg == <<"example", "org">>
Localhost == <<"localhost">>
WwwLocalhost == <<"www", "localhost">>

RegisteredDomains == {ExampleCom, CdnExampleCom, OtherCom, Localhost}
QueryDomains == {ExampleCom, CdnExampleCom, WwwExampleCom, OtherCom, ExampleOrg,
                 Localhost, WwwLocalhost}

Adapter(id, domains, strategy, selector, pattern, confidence, description) ==
  [id |-> id, domains |-> domains, strategy |-> strategy, selector |-> selector,
   pattern |-> pattern, confidence |-> confidence, dateAdded |-> 0,
   description |-> description]

\* adapters that differ in the domain they are registered for and in confidence
LookupInputs ==
  {Adapter(id, <<d>>, "selector", "a.pdf", UNDEFINED, c, UNDEFINED)
     : id \in Ids, d \in RegisteredDomains, c \in {60, 95}}

\* adapters of every kind, with and without their parameter
KindsOf(id) ==
  {Adapter(id, <<ExampleCom>>, "selector", UNDEFINED, UNDEFINED, 80, "note"),
   Adapter(id, <<ExampleCom>>, "pattern", UNDEFINED, "/pdf/N.pdf", 80, "note"),
   Adapter(id, <<ExampleCom>>, "pattern", UNDEFINED, UNDEFINED, 80, UNDEFINED),
   Adapter(id, <<ExampleCom, OtherCom>>, "javascript", UNDEFINED, UNDEFINED, 80, "")}

KindInputs == UNION {KindsOf(id) : id \in Ids}

\* the file at the store path
FileMissing == [kind |-> "missing", version |-> UNDEFINED, adapters |-> <<>>]
FileDirectory == [kind |-> "directory", version |-> UNDEFINED, adapters |-> <<>>]
FileGarbage == [kind |-> "garbage", version |-> UNDEFINED, adapters |-> <<>>]
FileNull == [kind |-> "null", version |-> UNDEFINED, adapters |-> <<>>]
FileEmptyObject == [kind |-> "object", version |-> UNDEFINED, adapters |-> <<>>]

\* the AdapterStore value in memory
Store(adapters) == [shape |-> "store", version |-> "1.0", adapters |-> adapters]
EmptyStore == Store(<<>>)
NullValue == [shape |-> "null", version |-> UNDEFINED, adapters |-> <<>>]
EmptyObjectValue == [shape |-> "object", version |-> UNDEFINED, adapters |-> <<>>]

MapSeq(s, Op(_)) == [i \in 1..Len(s) |-> Op(s[i])]

\* a serialiser that also drops empty strings
StringifyAdapterDropEmpty(a) ==
  [k \in AdapterKeys \ {o \in OptionalKeys : a[o] = UNDEFINED \/ a[o] = ""} |-> a[k]]

\* JSON.stringify of one adapter: a key whose value is undefined is left out
StringifyAdapter(a) ==
  [k \in AdapterKeys \ {o \in OptionalKeys : a[o] = UNDEFINED} |-> a[k]]

\* JSON.parse of one adapter: reading a key that is absent gives undefined
ParseAdapter(o) ==
  [k \in AdapterKeys |-> IF k \in DOMAIN o THEN o[k] ELSE UNDEFINED]

\* JSON.stringify(store, null, 2) + '\n'
StringifyStore(store) ==
  [kind |-> "store", version |-> store.version,
   adapters |-> MapSeq(store.adapters, StringifyAdapter)]

\* a loader whose failures escape
loadAdaptersNoCatch(f) ==
  CASE f.kind \in {"missing", "directory", "garbage"} ->
         [outcome |-> "threw", store |-> EmptyStore]
    [] f.kind = "null" -> [outcome |-> "returned", store |-> NullValue]
    [] f.kind = "object" -> [outcome |-> "returned", store |-> EmptyObjectValue]
    [] OTHER -> [outcome |-> "returned",
                 store |-> [shape |-> "store", version |-> f.version,
                            adapters |-> MapSeq(f.adapters, ParseAdapter)]]

\* loadAdapters: readFile and JSON.parse inside try/catch
loadAdapters(f) ==
  CASE f.kind \in {"missing", "directory", "garbage"} ->
         [outcome |-> "returned", store |-> EmptyStore]
    [] f.kind = "null" -> [outcome |-> "returned", store |-> NullValue]
    [] f.kind = "object" -> [outcome |-> "returned", store |-> EmptyObjectValue]
    [] OTHER -> [outcome |-> "returned",
                 store |-> [shape |-> "store", version |-> f.version,
                            adapters |-> MapSeq(f.adapters, ParseAdapter)]]

\* a save that does not create what is missing
saveAdaptersNoMkdir(store, f) ==
  IF f.kind \in {"directory", "missing"} THEN [outcome |-> "threw", file |-> f]
  ELSE [outcome |-> "returned", file |-> StringifyStore(store)]

\* saveAdapters: mkdir -p, then writeFile; writing over a directory fails
saveAdapters(store, f) ==
  IF f.kind = "directory" THEN [outcome |-> "threw", file |-> f]
  ELSE [outcome |-> "returned", file |-> StringifyStore(store)]

\* d.replace(/^www\./, '')
StripWww(d) == IF Len(d) >= 2 /\ d[1] = "www" THEN Tail(d) ELSE d

\* a base domain of the last label only
BaseDomainTopLabel(d) == <<d[Len(d)]>>

\* d.replace(/^www\./, '').split('.').slice(-2).join('.')
BaseDomain(d) ==
  LET s == StripWww(d)
  IN IF Len(s) <= 2 THEN s ELSE SubSeq(s, Len(s) - 1, Len(s))

\* a predicate that knows the exact match only
AdapterMatchesExact(adapter, domain) ==
  \E i \in 1..Len(adapter.domains) : adapter.domains[i] = domain

\* the predicate of store.adapters.filter
AdapterMatches(adapter, domain) ==
  \E i \in 1..Len(adapter.domains) :
     \/ BaseDomain(adapter.domains[i]) = BaseDomain(domain)
     \/ adapter.domains[i] = domain

\* a comparator that puts the lowest confidence first
CompareConfidenceAscending(a, b) == a.confidence - b.confidence

\* (a, b) => b.confidence - a.confidence
CompareConfidence(a, b) == b.confidence - a.confidence

RECURSIVE InsertAdapter(_, _)
InsertAdapter(x, s) ==
  IF s = <<>> THEN <<x>>
  ELSE IF CompareConfidence(Head(s), x) <= 0 THEN <<Head(s)>> \o InsertAdapter(x, Tail(s))
  ELSE <<x>> \o s

RECURSIVE SortAdapters(_)
SortAdapters(s) ==
  IF s = <<>> THEN <<>>
  ELSE InsertAdapter(s[Len(s)], SortAdapters(SubSeq(s, 1, Len(s) - 1)))

\* a lookup that answers from what the store held when the process started
findAdapterForDomainStale(domain, f) == [outcome |-> "returned", adapter |-> NoAdapter]

\* findAdapterForDomain: load, filter, sort by confidence, take the first
findAdapterForDomain(domain, f) ==
  LET loaded == loadAdapters(f)
      store == loaded.store
      matching == SelectSeq(store.adapters, LAMBDA a : AdapterMatches(a, domain))
      sorted == SortAdapters(matching)
  IN IF loaded.outcome = "threw" \/ store.shape # "store"
       THEN [outcome |-> "threw", adapter |-> NoAdapter]
     ELSE [outcome |-> "returned",
           adapter |-> IF sorted = <<>> THEN NoAdapter ELSE sorted[1]]

\* store.adapters.findIndex(a => a.id === adapter.id), 0 when there is none
FindIndex(adapters, id) ==
  IF \E i \in 1..Len(adapters) : adapters[i].id = id
    THEN CHOOSE i \in 1..Len(adapters) :
           /\ adapters[i].id = id
           /\ \A j \in 1..(i - 1) : adapters[j].id # id
  ELSE 0

\* an upsert that moves a replaced adapter to the end
UpsertMoveToEnd(adapters, adapter) ==
  Append(SelectSeq(adapters, LAMBDA a : a.id # adapter.id), adapter)

\* an upsert that always appends
UpsertAlwaysAppend(adapters, adapter) == Append(adapters, adapter)

\* replace the entry at existingIndex, or push
Upsert(adapters, adapter) ==
  LET existingIndex == FindIndex(adapters, adapter.id)
  IN IF existingIndex >= 1 THEN [adapters EXCEPT ![existingIndex] = adapter]
     ELSE Append(adapters, adapter)

\* a filter that removes nothing
WithoutIdKeepAll(adapters, id) == adapters

\* store.adapters.filter(a => a.id !== adapterId)
WithoutId(adapters, id) == SelectSeq(adapters, LAMBDA a : a.id # id)

StoredIds(f) == {f.adapters[i].id : i \in 1..Len(f.adapters)}

NoCall == [op |-> "none", outcome |-> "none", id |-> -1, domain |-> <<>>,
           adapter |-> NoAdapter, store |-> EmptyStore, bool |-> FALSE,
           existed |-> FALSE]

\* loadAdapters(storePath)
LoadAdaptersCall ==
  /\ LET loaded == loadAdapters(file)
     IN call' = [NoCall EXCEPT !.op = "load", !.outcome = loaded.outcome,
                               !.store = loaded.store]
  /\ UNCHANGED <<file, removed, discoveryVars, facadeVars, detectorVars, reportVars, pageVars, writerVars>>

\* saveAdapters(store, storePath), given a collection with unique ids
SaveAdaptersCall(pool) ==
  /\ \E a \in pool, b \in pool, n \in 0..2 :
       /\ a.id < b.id
       /\ LET store == Store(SubSeq(<<a, b>>, 1, n))
              saved == saveAdapters(store, file)
          IN /\ file' = saved.file
             /\ call' = [NoCall EXCEPT !.op = "save", !.outcome = saved.outcome,
                                       !.store = store]
             /\ removed' = IF saved.outcome = "returned"
                             THEN removed \ StoredIds(saved.file) ELSE removed
  /\ UNCHANGED <<discoveryVars, facadeVars, detectorVars, reportVars, pageVars, writerVars>>

\* findAdapterForDomain(domain, storePath)
FindAdapterForDomainCall(domains) ==
  /\ \E domain \in domains :
       LET found == findAdapterForDomain(domain, file)
       IN call' = [NoCall EXCEPT !.op = "find", !.outcome = found.outcome,
                                 !.domain = domain, !.adapter = found.adapter]
  /\ UNCHANGED <<file, removed, discoveryVars, facadeVars, detectorVars, reportVars, pageVars, writerVars>>

\* addAdapter(adapter, storePath)
AddAdapterCall(pool) ==
  /\ \E adapter \in pool :
       LET loaded == loadAdapters(file)
           store == loaded.store
           updated == [store EXCEPT !.adapters = Upsert(store.adapters, adapter)]
           saved == saveAdapters(updated, file)
           threw == \/ loaded.outcome = "threw"
                    \/ store.shape # "store"
                    \/ saved.outcome = "threw"
       IN /\ file' = IF threw THEN file ELSE saved.file
          /\ call' = [NoCall EXCEPT !.op = "add",
                                    !.outcome = IF threw THEN "threw" ELSE "returned",
                                    !.id = adapter.id, !.adapter = adapter,
                                    !.existed = (~threw /\ FindIndex(store.adapters, adapter.id) >= 1)]
          /\ removed' = IF threw THEN removed ELSE removed \ {adapter.id}
  /\ UNCHANGED <<discoveryVars, facadeVars, detectorVars, reportVars, pageVars, writerVars>>

\* removeAdapter(adapterId, storePath)
RemoveAdapterCall ==
  /\ \E adapterId \in Ids :
       LET loaded == loadAdapters(file)
           store == loaded.store
           initialLength == Len(store.adapters)
           kept == WithoutId(store.adapters, adapterId)
           shorter == Len(kept) < initialLength
           saved == saveAdapters([store EXCEPT !.adapters = kept], file)
           threw == \/ loaded.outcome = "threw"
                    \/ store.shape # "store"
                    \/ (shorter /\ saved.outcome = "threw")
       IN /\ file' = IF ~threw /\ shorter THEN saved.file ELSE file
          /\ call' = [NoCall EXCEPT !.op = "remove",
                                    !.outcome = IF threw THEN "threw" ELSE "returned",
                                    !.id = adapterId, !.bool = (~threw /\ shorter)]
          /\ removed' = IF ~threw /\ shorter THEN removed \cup {adapterId} ELSE removed
  /\ UNCHANGED <<discoveryVars, facadeVars, detectorVars, reportVars, pageVars, writerVars>>

\* getAllAdapters(storePath): store.adapters of whatever was loaded
GetAllAdaptersCall ==
  /\ LET loaded == loadAdapters(file)
         threw == loaded.outcome = "threw" \/ loaded.store.shape = "null"
     IN call' = [NoCall EXCEPT !.op = "getAll",
                               !.outcome = IF threw THEN "threw" ELSE "returned",
                               !.store = IF threw THEN EmptyStore ELSE loaded.store]
  /\ UNCHANGED <<file, removed, discoveryVars, facadeVars, detectorVars, reportVars, pageVars, writerVars>>

\* clearAllAdapters(storePath)
ClearAllAdaptersCall ==
  /\ LET saved == saveAdapters(EmptyStore, file)
     IN /\ file' = saved.file
        /\ call' = [NoCall EXCEPT !.op = "clear", !.outcome = saved.outcome]
  /\ UNCHANGED <<removed, discoveryVars, facadeVars, detectorVars, reportVars, pageVars, writerVars>>

\* the file is rewritten from outside the process: deleted, garbled, or given
\* a collection of its own
ExternalRewrite(pool) ==
  /\ \E f \in {FileMissing, FileGarbage, FileNull, FileEmptyObject}
             \cup {StringifyStore(Store(<<a>>)) : a \in pool} :
       /\ f # file
       /\ file' = f
  /\ call' = [NoCall EXCEPT !.op = "rewritten"]
  /\ removed' = removed \ StoredIds(file')
  /\ UNCHANGED <<discoveryVars, facadeVars, detectorVars, reportVars, pageVars, writerVars>>

\* ------------------------------------------------------------ scrape facade
\* a URL found on a page: an href, relative (base <<>>) or resolved against a host
RawUrl(href) == [base |-> <<>>, href |-> href]
AbsoluteUrl(host, href) == [base |-> host, href |-> href]

\* an href that new URL(href, url) rejects
BadHref == 0

\* what fetchHtml gives: a failure, or markup described by what each way of
\* extracting finds in it
Page(bySelector, byPattern, anchors) ==
  [ok |-> TRUE, bySelector |-> bySelector, byPattern |-> byPattern, anchors |-> anchors]
FetchFailure == [ok |-> FALSE, bySelector |-> <<>>, byPattern |-> <<>>, anchors |-> <<>>]
NotFetched == [ok |-> FALSE, bySelector |-> <<-1>>, byPattern |-> <<>>, anchors |-> <<>>]

FetchOutcomes ==
  {FetchFailure} \cup
  {Page(s, p, a) : s \in {<<>>, <<1, 1, MaxUrls>>, <<1, BadHref>>},
                   p \in {<<>>, <<MaxUrls, BadHref, MaxUrls>>},
                   a \in {<<>>, <<1, 1>>}}

\* answers to the fetch made for the default strategy, which reads the anchors only
DefaultFetchOutcomes ==
  {FetchFailure, Page(<<1, 1, MaxUrls>>, <<MaxUrls, BadHref, MaxUrls>>, <<1, 1>>)} \cup
  {Page(<<>>, <<>>, a) : a \in {<<>>, <<1, MaxUrls, 1>>}}

\* the url argument: malformed, or with a host
MalformedUrl == [valid |-> FALSE, host |-> <<>>]
ScrapeUrls == {MalformedUrl, [valid |-> TRUE, host |-> WwwExampleCom],
               [valid |-> TRUE, host |-> ExampleOrg]}

\* adapters of every kind under one id, registered for example.com
FacadeInputs ==
  KindsOf(1) \cup {Adapter(1, <<ExampleCom>>, "selector", "a.pdf", UNDEFINED, 95, UNDEFINED)}

\* [...new Set(urls)]: the first occurrence of each element stays
RECURSIVE Dedupe(_)
Dedupe(urls) ==
  IF urls = <<>> THEN <<>>
  ELSE LET front == Dedupe(SubSeq(urls, 1, Len(urls) - 1))
           last == urls[Len(urls)]
       IN IF \E i \in 1..Len(front) : front[i] = last THEN front ELSE Append(front, last)

\* getPdfUrlsFromHtml: the hrefs of anchors ending in .pdf, as written, once each
getPdfUrlsFromHtml(html) == Dedupe(MapSeq(html.anchors, RawUrl))

\* a JavaScript string used as a condition
Truthy(s) == s # UNDEFINED /\ s # ""

\* the strategy branches applied to the fetched markup (before deduplication)
ApplyAdapter(adapter, html, host) ==
  IF adapter.strategy = "selector" /\ Truthy(adapter.selector)
    THEN IF \E i \in 1..Len(html.bySelector) : html.bySelector[i] = BadHref
           THEN [outcome |-> "threw", pdfUrls |-> <<>>]
         ELSE [outcome |-> "returned",
               pdfUrls |-> MapSeq(html.bySelector, LAMBDA h : AbsoluteUrl(host, h))]
  ELSE IF adapter.strategy = "pattern" /\ Truthy(adapter.pattern)
    THEN [outcome |-> "returned",
          pdfUrls |-> MapSeq(html.byPattern,
                             LAMBDA h : IF h = BadHref THEN RawUrl(h)
                                        ELSE AbsoluteUrl(host, h))]
  ELSE IF adapter.strategy = "javascript"
    THEN [outcome |-> "returned", pdfUrls |-> getPdfUrlsFromHtml(html)]
  ELSE [outcome |-> "returned", pdfUrls |-> <<>>]

\* the function the branch taken for the adapter gets its URLs from
ExtractionOf(adapter) ==
  IF adapter.strategy = "selector" /\ Truthy(adapter.selector) THEN "querySelectorAll"
  ELSE IF adapter.strategy = "pattern" /\ Truthy(adapter.pattern) THEN "match"
  ELSE IF adapter.strategy = "javascript" THEN "getPdfUrlsFromHtml"
  ELSE "none"

Thrown == [outcome |-> "threw", source |-> "none", adapter |-> NoAdapter, pdfUrls |-> <<>>]

\* an adapter result that does not name the adapter
AdapterResultUnnamed(adapter, pdfUrls) ==
  [outcome |-> "returned", source |-> "adapter", adapter |-> NoAdapter, pdfUrls |-> pdfUrls]

\* { pdfUrls, adapter, source: 'adapter' }
AdapterResult(adapter, pdfUrls) ==
  [outcome |-> "returned", source |-> "adapter", adapter |-> adapter, pdfUrls |-> pdfUrls]

\* { pdfUrls, source: 'default' }
DefaultResult(pdfUrls) ==
  [outcome |-> "returned", source |-> "default", adapter |-> NoAdapter, pdfUrls |-> pdfUrls]

\* the default scraping at the end of the try block: fetch, then extract
DefaultScrape(html) ==
  IF ~ html.ok THEN Thrown ELSE DefaultResult(getPdfUrlsFromHtml(html))

\* getPdfUrlsWithAdapters(url); every error caught is thrown again
getPdfUrlsWithAdapters(url, f, html1, html2) ==
  LET found == findAdapterForDomain(url.host, f)
      adapter == found.adapter
      applied == ApplyAdapter(adapter, html1, url.host)
      pdfUrls == Dedupe(applied.pdfUrls)
  IN IF ~ url.valid THEN Thrown
     ELSE IF found.outcome = "threw" THEN Thrown
     ELSE IF adapter # NoAdapter
       THEN IF ~ html1.ok THEN Thrown
            ELSE IF applied.outcome = "threw" THEN Thrown
            ELSE IF Len(pdfUrls) > 0 THEN AdapterResult(adapter, pdfUrls)
            ELSE DefaultScrape(html2)
     ELSE DefaultScrape(html2)

NoScrape == [called |-> FALSE, url |-> MalformedUrl, found |-> NoAdapter,
             html1 |-> NotFetched, via |-> "none",
             html2 |-> NotFetched, result |-> Thrown]

\* one call of getPdfUrlsWithAdapters, with what each fetch it made answered
GetPdfUrlsWithAdaptersCall ==
  /\ \E url \in ScrapeUrls, html1 \in FetchOutcomes, html2 \in DefaultFetchOutcomes :
       LET found == findAdapterForDomain(url.host, file)
           result == getPdfUrlsWithAdapters(url, file, html1, html2)
           first == url.valid /\ found.outcome = "returned" /\ found.adapter # NoAdapter
           second == /\ url.valid
                     /\ found.outcome = "returned"
                     /\ \/ found.adapter = NoAdapter
                        \/ /\ html1.ok
                           /\ ApplyAdapter(found.adapter, html1, url.host).outcome = "returned"
                           /\ result.source # "adapter"
       IN scrape' = [called |-> TRUE, url |-> url,
                     found |-> IF first THEN found.adapter ELSE NoAdapter,
                     html1 |-> IF first THEN html1 ELSE NotFetched,
                     via |-> IF first /\ html1.ok THEN ExtractionOf(found.adapter)
                             ELSE "none",
                     html2 |-> IF second THEN html2 ELSE NotFetched,
                     result |-> result]
  /\ UNCHANGED <<file, call, removed, discoveryVars, detectorVars, reportVars, pageVars, writerVars>>

\* ------------------------------------------------------ overlapping writers
\* the addAdapter calls that overlap on one store path
MaxWriters == 3

NoWriter == [pc |-> "idle", store |-> EmptyStore]

\* the adapter call w adds: the calls differ in the id only, so every adapter
\* takes the same number of bytes in the file
WriterAdapter(w) ==
  Adapter(w, <<ExampleCom>>, "pattern", UNDEFINED, "/pdf/N.pdf", 80, UNDEFINED)

\* a file opened with flag 'w': created if missing, cut to no bytes, which
\* JSON.parse rejects
Truncated == FileGarbage

\* writing content at offset 0 of the file as it is now: bytes of a longer
\* content that another descriptor wrote stay behind it, and JSON.parse rejects
\* the whole
WriteAtStart(content, f) ==
  IF Len(f.adapters) > Len(content.adapters)
  THEN [kind |-> "garbage", version |-> UNDEFINED, adapters |-> f.adapters]
  ELSE content

\* addAdapter up to the first pause of its save: readFile takes the file as it
\* is at that instant; the upsert and the call of saveAdapters follow at once
WriterLoad(w) ==
  /\ writers[w].pc = "idle"
  /\ LET store == loadAdapters(file).store
     IN writers' = [writers EXCEPT ![w] =
                      [pc |-> "loaded",
                       store |-> [store EXCEPT
                                    !.adapters = Upsert(@, WriterAdapter(w))]]]
  /\ UNCHANGED <<lastSaved, discoveryVars, storeVars, facadeVars, detectorVars,
                 reportVars, pageVars>>

\* saveAdapters: after mkdir, writeFile opens the file, which truncates it
WriterOpen(w) ==
  /\ writers[w].pc = "loaded"
  /\ file' = Truncated
  /\ writers' = [writers EXCEPT ![w].pc = "opened"]
  /\ UNCHANGED <<lastSaved, call, removed, discoveryVars, facadeVars,
                 detectorVars, reportVars, pageVars>>

\* saveAdapters: writeFile writes the serialised store through its descriptor;
\* the call then returns
WriterWrite(w) ==
  /\ writers[w].pc = "opened"
  /\ file' = WriteAtStart(StringifyStore(writers[w].store), file)
  /\ writers' = [writers EXCEPT ![w].pc = "done"]
  /\ lastSaved' = w
  /\ UNCHANGED <<call, removed, discoveryVars, facadeVars, detectorVars,
                 reportVars, pageVars>>

\* ------------------------------------------------- detectors on page markup
\* the most anchors a page holds
MaxAnchors == 3

\* the href of an anchor to a PDF: written absolute (https://example.com/N.pdf)
\* or root-relative (/N.pdf), with or without a query string after ".pdf"
Hrefs == [path : 1..MaxUrls, absolute : BOOLEAN, query : BOOLEAN]

\* a page: its PDF anchors in document order, none of them with a URL in its text
Markups == UNION {[1..n -> Hrefs] : n \in 0..MaxAnchors}

NoDetection == [strategy |-> "none", found |-> FALSE, pdfUrls |-> <<>>]

\* the result of a detector: undefined when its URL list is empty
Detection(strategy, urls) ==
  [strategy |-> strategy, found |-> urls # <<>>, pdfUrls |-> urls]

\* detectWithSelectors: a[href*=".pdf"] comes first and matches every anchor, so
\* it is the best match; its hrefs as written, through new Set
SelectorUrls(m) == Dedupe(m)

\* cleanUrl: an href that starts with / or http and holds .pdf passes unchanged
cleanUrl(href) == href

\* detectWithPatterns: the hrefs the href regex captures, cleaned, through a Set;
\* with the tags stripped nothing of an anchor is left for the text regex
PatternUrls(m) == Dedupe([i \in 1..Len(m) |-> cleanUrl(m[i])])

\* the evaluate callback: an href starting with http as it is, one starting
\* with / behind window.location.origin
Absolutize(href) == [href EXCEPT !.absolute = TRUE]

\* pageContent.match(/https?:\/\/[^\s<>"']*\.pdf/gi): every absolute href up to
\* its last ".pdf", in document order
TextPdfs(m) ==
  LET absolutes == SelectSeq(m, LAMBDA h : h.absolute)
  IN [i \in 1..Len(absolutes) |-> [absolutes[i] EXCEPT !.query = FALSE]]

\* [...new Set([...pdfUrls, ...textPdfs])]
JavaScriptUrls(m) ==
  Dedupe(Dedupe([i \in 1..Len(m) |-> Absolutize(m[i])]) \o TextPdfs(m))

\* detectWithSelectors(html)
DetectWithSelectorsCall ==
  /\ detection' = Detection("selector", SelectorUrls(markup))
  /\ UNCHANGED <<markup, discoveryVars, storeVars, facadeVars, detectorVars,
                 reportVars, writerVars>>

\* detectWithPatterns(html)
DetectWithPatternsCall ==
  /\ detection' = Detection("pattern", PatternUrls(markup))
  /\ UNCHANGED <<markup, discoveryVars, storeVars, facadeVars, detectorVars,
                 reportVars, writerVars>>

\* detectWithJavaScript(url): the try block on a page that loads
DetectWithJavaScriptCall ==
  /\ detection' = Detection("javascript", JavaScriptUrls(markup))
  /\ UNCHANGED <<markup, discoveryVars, storeVars, facadeVars, detectorVars,
                 reportVars, writerVars>>

\* ------------------------------------------------------------ specifications
InitDiscoveryVars ==
  /\ now = 0
  /\ dpc = "idle"
  /\ urlGiven = FALSE
  /\ timestamp = 0
  /\ reportResults = <<>>
  /\ jsPromise = NotLaunched
  /\ discovered = NoAdapter

InitStoreVars ==
  /\ file \in {FileMissing, FileDirectory, FileGarbage, FileNull, FileEmptyObject}
  /\ call = NoCall
  /\ removed = {}

InitFacadeVars == scrape = NoScrape

InitDetectorVars ==
  /\ jpc = "idle"
  /\ browser = "null"
  /\ jsPage = "null"
  /\ jsLinks = 0
  /\ jsCaught = FALSE
  /\ jsReturn = NoResult

InitReportVars ==
  /\ report = NoReport
  /\ returned = <<>>

InitPageVars ==
  /\ markup = <<>>
  /\ detection = NoDetection

InitWriterVars ==
  /\ writers = [w \in 1..MaxWriters |-> NoWriter]
  /\ lastSaved = 0

Init == InitDiscoveryVars /\ InitStoreVars /\ InitFacadeVars /\ InitDetectorVars
          /\ InitReportVars /\ InitPageVars /\ InitWriterVars

vars == <<now, dpc, urlGiven, timestamp, reportResults, jsPromise, discovered,
          file, call, removed, scrape, jpc, browser, jsPage, jsLinks, jsCaught,
          jsReturn, report, returned, markup, detection, writers, lastSaved>>

\* one discovery call, step by step, against an advancing clock
NextDiscovery ==
  \/ DiscoverStart
  \/ DiscoverLaunchJs
  \/ DiscoverAwaitJs
  \/ DiscoverRank
  \/ Tick

InitDiscovery == InitDiscoveryVars /\ file = FileMissing /\ call = NoCall
                   /\ removed = {} /\ InitFacadeVars /\ InitDetectorVars
                   /\ InitReportVars /\ InitPageVars /\ InitWriterVars

SpecDiscovery == InitDiscovery /\ [][NextDiscovery]_vars

\* one discovery call with the detectors themselves, the dynamic one step by
\* step, and the report on the same detector outcomes
DetectorSteps ==
  \/ JsLaunch
  \/ JsNewContext
  \/ JsNewPage
  \/ JsGoto
  \/ JsWait
  \/ JsEvaluate
  \/ JsContent
  \/ JsFinallyPage
  \/ JsFinallyBrowser

DiscoverySteps ==
  \/ DiscoverEntry(DetectedSelectorOutcomes, DetectedPatternOutcomes)
  \/ DiscoverLaunchDetector
  \/ DiscoverAwaitJs
  \/ DiscoverRank

NextDetect ==
  \/ DiscoverySteps
  \/ DetectorSteps
  \/ DiscoverAdapterWithReportCall

SpecDetect == InitDiscovery /\ [][NextDetect]_vars

\* the same, with the event loop running every continuation that is ready and
\* the browser driver settling every call that has a deadline
SpecDetectFair ==
  InitDiscovery /\ [][NextDetect]_vars /\ WF_vars(DiscoverySteps) /\ WF_vars(DetectorSteps)

\* discovery calls one after another against the clock
NextRepeat ==
  \/ NextDiscovery
  \/ DiscoverReturn

SpecRepeat == InitDiscovery /\ [][NextRepeat]_vars

\* calls on the adapter store, one after another, with adapters of every kind
Next ==
  \/ LoadAdaptersCall
  \/ SaveAdaptersCall(KindInputs)
  \/ FindAdapterForDomainCall({ExampleCom, ExampleOrg})
  \/ AddAdapterCall(KindInputs)
  \/ RemoveAdapterCall
  \/ GetAllAdaptersCall
  \/ ClearAllAdaptersCall

Spec == Init /\ [][Next]_vars

\* lookups by domain over adapters registered for different domains
NextLookup ==
  \/ AddAdapterCall(LookupInputs)
  \/ RemoveAdapterCall
  \/ ClearAllAdaptersCall
  \/ FindAdapterForDomainCall(QueryDomains)

SpecLookup == Init /\ [][NextLookup]_vars

\* scraping through the facade over a store that holds at most one adapter
NextFacade ==
  \/ AddAdapterCall(FacadeInputs)
  \/ ClearAllAdaptersCall
  \/ GetPdfUrlsWithAdaptersCall

SpecFacade == Init /\ [][NextFacade]_vars

\* lookups against a file that calls of this process and others rewrite
NextExternal ==
  \/ AddAdapterCall(FacadeInputs)
  \/ RemoveAdapterCall
  \/ ClearAllAdaptersCall
  \/ ExternalRewrite(FacadeInputs)
  \/ FindAdapterForDomainCall({WwwExampleCom, ExampleOrg})
  \/ GetPdfUrlsWithAdaptersCall

SpecExternal == Init /\ [][NextExternal]_vars

\* the three detectors on every page of up to MaxAnchors anchors
NextMarkup ==
  \/ DetectWithSelectorsCall
  \/ DetectWithPatternsCall
  \/ DetectWithJavaScriptCall

InitMarkup ==
  /\ InitDiscoveryVars /\ file = FileMissing /\ call = NoCall /\ removed = {}
  /\ InitFacadeVars /\ InitDetectorVars /\ InitReportVars /\ InitWriterVars
  /\ markup \in Markups
  /\ detection = NoDetection

SpecMarkup == InitMarkup /\ [][NextMarkup]_vars

\* addAdapter calls with distinct ids, overlapping on a store path with no file
NextWriters ==
  \/ \E w \in 1..MaxWriters : WriterLoad(w)
  \/ \E w \in 1..MaxWriters : WriterOpen(w)
  \/ \E w \in 1..MaxWriters : WriterWrite(w)

InitWriters ==
  /\ InitDiscoveryVars /\ file = FileMissing /\ call = NoCall /\ removed = {}
  /\ InitFacadeVars /\ InitDetectorVars /\ InitReportVars /\ InitPageVars
  /\ InitWriterVars

SpecWriters == InitWriters /\ [][NextWriters]_vars

\* ------------------------------------------------------------------ claims
AtLeastFloor(r) == r.confidence >= MINIMUM_CONFIDENCE

\* r comes before q: higher confidence, then more URLs, then strategy priority
RanksBefore(r, q) ==
  \/ r.confidence > q.confidence
  \/ r.confidence = q.confidence /\ r.urlCount > q.urlCount
  \/ /\ r.confidence = q.confidence
     /\ r.urlCount = q.urlCount
     /\ strategyPriority(r.strategy) > strategyPriority(q.strategy)

BuiltFrom(adapter, r) ==
  /\ adapter.strategy = r.strategy
  /\ adapter.confidence = r.confidence
  /\ adapter.selector = r.selector
  /\ adapter.pattern = r.pattern

\* C1: whatever the three detectors report, discoverAdapter returns the adapter
\* built from the result that comes first, among those with confidence >= 0.5,
\* by confidence, then URL count, then priority javascript > pattern > selector.
C1_BestResultSelected ==
  dpc = "done" =>
    \A i \in 1..Len(reportResults) :
       ( /\ AtLeastFloor(reportResults[i])
         /\ \A j \in 1..Len(reportResults) :
              (j # i /\ AtLeastFloor(reportResults[j]))
                => RanksBefore(reportResults[i], reportResults[j]) )
       => BuiltFrom(discovered, reportResults[i])

\* three results tie on confidence and URL count and the dynamic one is selected
C1_Witness ==
  /\ dpc = "done"
  /\ Len(reportResults) = 3
  /\ \A i \in 1..3 : /\ reportResults[i].confidence = reportResults[1].confidence
                     /\ reportResults[i].urlCount = reportResults[1].urlCount
                     /\ AtLeastFloor(reportResults[i])
  /\ discovered.strategy = "javascript"

\* C2: discoverAdapter returns none exactly when no detector reported a result
\* with confidence >= 0.5, and a returned adapter has confidence >= 0.5.
C2_FloorFilters ==
  dpc = "done" =>
    /\ (discovered = NoAdapter)
         <=> ~ \E i \in 1..Len(reportResults) : AtLeastFloor(reportResults[i])
    /\ discovered # NoAdapter => discovered.confidence >= MINIMUM_CONFIDENCE

\* the only result is below the floor and nothing is returned
C2_Witness ==
  /\ dpc = "done"
  /\ Len(reportResults) = 1
  /\ reportResults[1].confidence < MINIMUM_CONFIDENCE
  /\ discovered = NoAdapter

StoredAdapter(i) == ParseAdapter(file.adapters[i])
StoredIndexes == 1..Len(file.adapters)

LastTwoLabels(d) == IF Len(d) <= 2 THEN d ELSE SubSeq(d, Len(d) - 1, Len(d))
WithoutLeadingWww(d) == IF Len(d) >= 2 /\ d[1] = "www" THEN Tail(d) ELSE d

\* an adapter registered for the two-label parent of a three-label query, when
\* no other adapter matches, is the one returned
SubdomainFindsParent ==
  \A i \in StoredIndexes :
     ( /\ Len(call.domain) = 3
       /\ \E k \in 1..Len(file.adapters[i].domains) :
            file.adapters[i].domains[k] = Tail(call.domain)
       /\ \A j \in StoredIndexes \ {i} : ~ AdapterMatches(file.adapters[j], call.domain) )
     => call.adapter = StoredAdapter(i)

\* the queried domain differs from every registered domain in the top-level
\* label or in the second-level label
SharesAtMostOneLabel ==
  \A i \in StoredIndexes : \A k \in 1..Len(file.adapters[i].domains) :
     LastTwoLabels(call.domain) # LastTwoLabels(file.adapters[i].domains[k])

\* the same, a leading www. of either domain left aside
SharesAtMostOneLabelBesidesWww ==
  \A i \in StoredIndexes : \A k \in 1..Len(file.adapters[i].domains) :
     LastTwoLabels(WithoutLeadingWww(call.domain))
       # LastTwoLabels(WithoutLeadingWww(file.adapters[i].domains[k]))

\* C3 as stated: a lookup finds the parent's adapter for a subdomain, and
\* returns none for a domain that shares at most the top-level label or at
\* most the second-level label with every registered domain.
C3_Original ==
  (call.op = "find" /\ call.outcome = "returned") =>
    /\ SubdomainFindsParent
    /\ SharesAtMostOneLabel => call.adapter = NoAdapter

\* C3 amended: the same, the labels of the second part being compared after a
\* leading www. is left aside in the queried and in the registered domains.
C3_DomainLaw ==
  (call.op = "find" /\ call.outcome = "returned") =>
    /\ SubdomainFindsParent
    /\ SharesAtMostOneLabelBesidesWww => call.adapter = NoAdapter

\* cdn.example.com finds the adapter registered for example.com
C3_Witness ==
  /\ call.op = "find"
  /\ call.outcome = "returned"
  /\ call.domain = CdnExampleCom
  /\ Len(file.adapters) = 2
  /\ file.adapters[1].domains = <<OtherCom>>
  /\ file.adapters[2].domains = <<ExampleCom>>
  /\ call.adapter = StoredAdapter(2)

\* C4: findAdapterForDomain returns a stored matching adapter whose confidence
\* is at least that of every stored matching adapter, and returns none only
\* when no stored adapter matches.
C4_HighestConfidence ==
  (call.op = "find" /\ call.outcome = "returned") =>
    /\ call.adapter # NoAdapter =>
         /\ \E i \in StoredIndexes : call.adapter = StoredAdapter(i)
         /\ AdapterMatches(call.adapter, call.domain)
         /\ \A j \in StoredIndexes :
              AdapterMatches(file.adapters[j], call.domain)
                => call.adapter.confidence >= file.adapters[j].confidence
    /\ call.adapter = NoAdapter =>
         \A j \in StoredIndexes : ~ AdapterMatches(file.adapters[j], call.domain)

\* the adapter returned is stored after a matching one of lower confidence
C4_Witness ==
  /\ call.op = "find"
  /\ call.outcome = "returned"
  /\ Len(file.adapters) = 2
  /\ AdapterMatches(file.adapters[1], call.domain)
  /\ file.adapters[1].confidence < file.adapters[2].confidence
  /\ call.adapter = StoredAdapter(2)

\* C5: no two stored adapters share an id, and after an add exactly one stored
\* adapter has the added id and it carries the fields of that add.
C5_UpsertUniqueIds ==
  /\ \A i \in StoredIndexes : \A j \in StoredIndexes :
       file.adapters[i].id = file.adapters[j].id => i = j
  /\ (call.op = "add" /\ call.outcome = "returned") =>
       \E i \in StoredIndexes :
          /\ StoredAdapter(i) = call.adapter
          /\ \A j \in StoredIndexes : file.adapters[j].id = call.id => j = i

\* an add under an id that was stored already, next to another adapter
C5_Witness ==
  /\ call.op = "add"
  /\ call.outcome = "returned"
  /\ call.existed
  /\ Len(file.adapters) = 2
  /\ file.adapters[1].id = call.id

\* C6: removeAdapter(id) returns true when id is stored and id is not stored
\* afterwards; once it has returned true it returns false until id is added.
C6_RemovalLaw ==
  [][ \A id \in Ids :
        (call'.op = "remove" /\ call'.id = id) =>
          /\ id \in StoredIds(file) =>
               /\ call'.outcome = "returned"
               /\ call'.bool
               /\ id \notin StoredIds(file')
          /\ id \in removed => (call'.outcome = "returned" /\ ~ call'.bool) ]_vars

\* a repeated removal has returned false
C6_Witness ==
  /\ call.op = "remove"
  /\ call.outcome = "returned"
  /\ call.id \in removed
  /\ ~ call.bool

\* C7: loadAdapters never raises, and gives the empty collection when the file
\* is missing, unreadable or not parseable.
C7_LoadNeverThrows ==
  call.op = "load" =>
    /\ call.outcome = "returned"
    /\ file.kind \in {"missing", "directory", "garbage"} => call.store = EmptyStore

\* a load of a file that does not parse
C7_Witness ==
  /\ call.op = "load"
  /\ file.kind = "garbage"
  /\ call.store = EmptyStore

\* C8: after addAdapter(a) resolves a load finds an adapter equal to a in every
\* field, and after saveAdapters(s) resolves a load returns s.
C8_StorageLossless ==
  /\ (call.op = "add" /\ call.outcome = "returned") =>
       LET loaded == loadAdapters(file)
       IN /\ loaded.outcome = "returned"
          /\ \E i \in 1..Len(loaded.store.adapters) :
               \A k \in AdapterKeys : loaded.store.adapters[i][k] = call.adapter[k]
  /\ (call.op = "save" /\ call.outcome = "returned") =>
       loadAdapters(file) = [outcome |-> "returned", store |-> call.store]

\* a saved collection of two adapters with absent and with empty fields
C8_Witness ==
  /\ call.op = "save"
  /\ call.outcome = "returned"
  /\ Len(call.store.adapters) = 2
  /\ call.store.adapters[1].description = ""
  /\ call.store.adapters[2].pattern = UNDEFINED
  /\ "description" \in DOMAIN file.adapters[1]
  /\ "pattern" \notin DOMAIN file.adapters[2]

\* the adapter the lookup gave for the host of the scraped url
FoundForUrl == scrape.found

\* the adapter's own way of extracting finds something in the markup
Yields(adapter, html) ==
  \/ adapter.strategy = "selector" /\ Truthy(adapter.selector) /\ html.bySelector # <<>>
  \/ adapter.strategy = "pattern" /\ Truthy(adapter.pattern) /\ html.byPattern # <<>>
  \/ adapter.strategy = "javascript" /\ html.anchors # <<>>

\* C9: a result of getPdfUrlsWithAdapters has source adapter or default; it is
\* adapter exactly when an adapter was found for the host and yielded a URL on
\* the fetched markup, and then the result names it; a default result names none.
C9_SourceReported ==
  (scrape.called /\ scrape.result.outcome = "returned") =>
    /\ scrape.result.source \in {"adapter", "default"}
    /\ scrape.result.source = "adapter"
         <=> (FoundForUrl # NoAdapter /\ Yields(FoundForUrl, scrape.html1))
    /\ scrape.result.source = "adapter" =>
         (scrape.result.adapter = FoundForUrl /\ scrape.result.adapter # NoAdapter)
    /\ scrape.result.source = "default" => scrape.result.adapter = NoAdapter

\* an adapter registered for example.com answers for www.example.com
C9_Witness ==
  /\ scrape.called
  /\ scrape.result.outcome = "returned"
  /\ scrape.result.source = "adapter"
  /\ scrape.result.adapter.strategy = "pattern"
  /\ scrape.url.host = WwwExampleCom
  /\ Len(scrape.result.pdfUrls) = 2

\* C10: when the adapter found for the url yields nothing on the fetched
\* markup, also for want of its selector or pattern, the call does not fail: it
\* returns the URLs of the default strategy with source default.
C10_FallbackNeverFails ==
  ( /\ scrape.called
    /\ scrape.url.valid
    /\ FoundForUrl # NoAdapter
    /\ scrape.html1.ok
    /\ ~ Yields(FoundForUrl, scrape.html1) )
  => /\ scrape.result.outcome = "returned"
     /\ scrape.result.source = "default"
     /\ scrape.result.pdfUrls = getPdfUrlsFromHtml(scrape.html2)

\* ---------------------------------------------------- the dynamic detector
\* the detectWithJavaScript call has handed its value to the awaiting caller
JsResolved == jpc = "resolved"

\* C11: on every exit path of detectWithJavaScript (links found, none found,
\* navigation error, timeout, failure creating the context or the page), a
\* browser that was launched has had its close invoked by the time the call
\* resolves; the caller never gets a value while a launched browser is left alone.
C11_BrowserReleased ==
  (JsResolved \/ dpc \in {"await", "rank", "done"}) => browser # "launched"

\* the page could not be created: the browser was launched and is closed
C11_Witness ==
  /\ JsResolved
  /\ jsCaught
  /\ browser = "closeInvoked"
  /\ jsPage = "null"

OnlyStaticResults ==
  \A i \in 1..Len(reportResults) : reportResults[i].strategy \in {"selector", "pattern"}

\* C12: an error thrown by the launch, a navigation, an evaluation or a timeout
\* inside detectWithJavaScript resolves the call to none, the promise never
\* rejects, and discoverAdapter returns the adapter built from the best of the
\* selector and pattern results.
C12_DetectorFailureIsolated ==
  /\ jsPromise # Rejected
  /\ (JsResolved /\ jsCaught) => jsPromise = NoResult
  /\ (dpc = "done" /\ jsCaught) =>
       /\ OnlyStaticResults
       /\ (discovered = NoAdapter) <=> (reportResults = <<>>)
       /\ \A i \in 1..Len(reportResults) :
            (\A j \in 1..Len(reportResults) :
                j # i => RanksBefore(reportResults[i], reportResults[j]))
            => BuiltFrom(discovered, reportResults[i])

\* the navigation fails after both static detectors reported, and the pattern
\* result is selected
C12_Witness ==
  /\ dpc = "done"
  /\ jsCaught
  /\ jsPage = "closeInvoked"
  /\ Len(reportResults) = 2
  /\ discovered.strategy = "pattern"

\* C13: a discoverAdapter call that got a source url completes, whatever the
\* page does.
C13_DiscoveryCompletes ==
  (dpc = "launch" /\ urlGiven) ~> (dpc = "done")

\* --------------------------------------------------------------- report mode
\* C15: on the same detector outcomes the report lists every result that is
\* not none, and its bestResult is the result discoverAdapter built its adapter
\* from, absent exactly when discoverAdapter returned none.
C15_ReportAgrees ==
  report.called =>
    /\ report.results = reportResults
    /\ (report.bestResult = NoResult) <=> (discovered = NoAdapter)
    /\ report.bestResult # NoResult => BuiltFrom(discovered, report.bestResult)

\* ------------------------------------------------------------ adapter fields
\* C16: an adapter returned by discoverAdapter has the fields of its kind: a
\* selector and no pattern, a pattern and no selector, or neither for javascript.
C16_FieldsOfKind ==
  (dpc = "done" /\ discovered # NoAdapter) =>
    /\ discovered.strategy = "selector" =>
         (discovered.selector # UNDEFINED /\ discovered.pattern = UNDEFINED)
    /\ discovered.strategy = "pattern" =>
         (discovered.pattern # UNDEFINED /\ discovered.selector = UNDEFINED)
    /\ discovered.strategy = "javascript" =>
         (discovered.selector = UNDEFINED /\ discovered.pattern = UNDEFINED)

\* ------------------------------------------------------------------- caps
ConfidenceCap(strategy) ==
  CASE strategy = "selector" -> 99
    [] strategy = "pattern" -> 95
    [] strategy = "javascript" -> 98
    [] OTHER -> 0

WithinCap(r) ==
  /\ r.urlCount >= 1
  /\ r.confidence >= 0
  /\ r.confidence <= 100
  /\ r.confidence <= ConfidenceCap(r.strategy)

\* C20: every result a detector reports has a confidence between 0 and 1 that
\* is at most 0.99 for the selector detector, 0.95 for the pattern detector
\* (the pattern bonus included) and 0.98 for the dynamic detector, for every
\* count of links from one up.
C20_ConfidenceCapped ==
  /\ \A i \in 1..Len(reportResults) : WithinCap(reportResults[i])
  /\ jsReturn # NoResult => WithinCap(jsReturn)

\* each of the three detectors found enough links for its cap to bite
C20_Witness ==
  /\ dpc = "done"
  /\ Len(reportResults) = 3
  /\ reportResults[1].confidence = 99 /\ reportResults[1].urlCount > 4
  /\ reportResults[2].confidence = 95 /\ reportResults[2].urlCount > 6
  /\ reportResults[2].pattern # UNDEFINED
  /\ reportResults[3].confidence = 98 /\ reportResults[3].urlCount > 7

\* ------------------------------------------------------------ fresh lookups
\* the stored adapters that answer for a domain
MatchingStored(domain) ==
  {i \in StoredIndexes : AdapterMatches(StoredAdapter(i), domain)}

\* C14: a lookup reads the file anew: after an add, a remove, a clear or a
\* rewrite from outside, findAdapterForDomain answers from the file as it is
\* then, returning an adapter that is in the file and matches, or none when
\* the file holds no match; the adapter getPdfUrlsWithAdapters works with is
\* likewise in the file at the time of the call.
C14_NoStaleAdapter ==
  /\ [] ( (call.op = "find" /\ call.outcome = "returned") =>
            IF call.adapter = NoAdapter THEN MatchingStored(call.domain) = {}
            ELSE \E i \in MatchingStored(call.domain) : StoredAdapter(i) = call.adapter )
  /\ [][ (scrape' # scrape /\ scrape'.found # NoAdapter) =>
           \E i \in MatchingStored(scrape'.url.host) : StoredAdapter(i) = scrape'.found ]_vars

\* a lookup finds nothing after the file holding the adapter was rewritten
C14_Witness ==
  /\ call.op = "find"
  /\ call.outcome = "returned"
  /\ call.adapter = NoAdapter
  /\ call.domain = WwwExampleCom
  /\ file.kind = "garbage"
  /\ scrape.called
  /\ scrape.found # NoAdapter

\* ------------------------------------------------------ the dynamic adapter
\* C17: with an adapter of the javascript kind found for the url,
\* getPdfUrlsWithAdapters gets the URLs from the headless-browser detector run
\* on the url, not from the markup it fetched.
C17_DynamicAdapterRerun ==
  (scrape.called /\ FoundForUrl.strategy = "javascript" /\ scrape.html1.ok)
    => scrape.via = "detectWithJavaScript"

\* C18: a failed page fetch inside getPdfUrlsWithAdapters, the first or the one
\* made for the fallback, ends in a result that is absent or empty, never in
\* an exception raised to the caller.
C18_FetchFailureCaught ==
  (scrape.called /\ (scrape.html1 = FetchFailure \/ scrape.html2 = FetchFailure))
    => scrape.result.outcome = "returned"

\* ---------------------------------------------------------------- adapter ids
\* C19: two adapters returned by two different discoverAdapter calls have
\* different ids, so that saving both with addAdapter keeps both.
C19_IdsUniqueAcrossCalls ==
  \A i, j \in 1..Len(returned) :
     (i < j /\ returned[i] # NoAdapter.id /\ returned[j] # NoAdapter.id)
       => returned[i] # returned[j]

\* ------------------------------------------------------- lookups that raise
\* C24: whatever the store file holds, also JSON that is not a collection with
\* an adapters sequence (null, an empty object), findAdapterForDomain resolves
\* to none or to an adapter and does not throw.
C24_LookupNeverThrows ==
  call.op = "find" => call.outcome = "returned"

\* ------------------------------------------------------------- launch order
\* C25: with a source url, the dynamic detector has been launched by the time
\* the selector and pattern detectors have been evaluated, and the results are
\* ranked only when the dynamic detector has settled.
C25_LaunchOrder ==
  /\ (urlGiven /\ dpc # "idle") => jsPromise # NotLaunched
  /\ dpc \in {"rank", "done"} => jsPromise \notin {NotLaunched, Pending}

\* ------------------------------------------------------------------ ceilings
\* the largest confidence the dynamic detector can produce
LargestDynamicConfidence ==
  CHOOSE c \in {JavaScriptConfidence(n) : n \in 1..MaxFound} :
    \A n \in 1..MaxFound : JavaScriptConfidence(n) <= c

LeastConfidence(strategy) ==
  CASE strategy = "selector" -> 75
    [] strategy = "pattern" -> 55
    [] strategy = "javascript" -> 87
    [] OTHER -> 100

ImgExampleCom == <<"img", "example", "com">>

\* C28: a lookup depends on the queried domain through its base only (the last
\* two labels after a leading www. is stripped): every domain with the base of
\* the queried one gets the same answer over the same store, so the adapter of
\* cdn.example.com answers for example.com, www.example.com and img.example.com.
C28_BaseDomainDecides ==
  (call.op = "find" /\ call.outcome = "returned") =>
    \A q \in QueryDomains \cup {ImgExampleCom} :
       BaseDomain(q) = BaseDomain(call.domain)
         => findAdapterForDomain(q, file) = [outcome |-> "returned", adapter |-> call.adapter]

\* the parent domain is answered by the adapter registered for a subdomain,
\* which outranks the one registered for the parent itself
C28_Witness ==
  /\ call.op = "find"
  /\ call.outcome = "returned"
  /\ call.domain = ExampleCom
  /\ Len(file.adapters) = 2
  /\ file.adapters[1].domains = <<ExampleCom>>
  /\ call.adapter.domains = <<CdnExampleCom>>
  /\ findAdapterForDomain(ImgExampleCom, file).adapter = call.adapter
  /\ findAdapterForDomain(WwwExampleCom, file).adapter = call.adapter

\* ------------------------------------------------------------ stored order
\* the ids in the file, in file order
IdSeq(f) == [i \in 1..Len(f.adapters) |-> f.adapters[i].id]

\* C21: the store keeps insertion order: an add under a new id puts it last,
\* an add under a stored id leaves every position as it is, a removal keeps
\* the order of the others, and getAllAdapters lists the adapters in file order.
C21_InsertionOrderKept ==
  [][ /\ (call'.op = "add" /\ call'.outcome = "returned") =>
           IdSeq(file') = IF call'.existed THEN IdSeq(file)
                          ELSE Append(IdSeq(file), call'.id)
      /\ (call'.op = "remove" /\ call'.outcome = "returned") =>
           IdSeq(file') = SelectSeq(IdSeq(file), LAMBDA x : x # call'.id)
      /\ (call'.op = "getAll" /\ call'.outcome = "returned") =>
           /\ Len(call'.store.adapters) = Len(file.adapters)
           /\ \A i \in 1..Len(file.adapters) :
                call'.store.adapters[i] = StoredAdapter(i) ]_vars

\* the adapter added first, under the higher id, was added again and is
\* still first
C21_Witness ==
  /\ call.op = "add"
  /\ call.outcome = "returned"
  /\ call.existed
  /\ IdSeq(file) = <<2, 1>>
  /\ call.id = 2
  /\ StoredAdapter(1) = call.adapter

\* -------------------------------------------------------------- read-only
\* C29: loadAdapters, getAllAdapters and findAdapterForDomain leave the file
\* as it is (a missing file stays missing, the stored order stays), and
\* removeAdapter with an id that is not stored returns false and leaves the
\* file as it is.
C29_ReadsLeaveFile ==
  [][ /\ call'.op \in {"load", "getAll", "find"} => file' = file
      /\ (call'.op = "remove" /\ call'.id \notin StoredIds(file)) =>
           /\ call'.outcome = "returned"
           /\ ~ call'.bool
           /\ file' = file ]_vars

\* ------------------------------------------------------- add on no store
\* C30: with the store file missing or not parseable, addAdapter(a) does not
\* raise, and afterwards the file is a collection of version 1.0 whose only
\* adapter is a.
C30_AddOnUnusableStore ==
  [][ (call'.op = "add" /\ file.kind \in {"missing", "garbage"}) =>
        /\ call'.outcome = "returned"
        /\ file'.kind = "store"
        /\ file'.version = "1.0"
        /\ Len(file'.adapters) = 1
        /\ ParseAdapter(file'.adapters[1]) = call'.adapter ]_vars

\* the first add of a run wrote a collection holding its adapter alone
C30_Witness ==
  /\ call.op = "add"
  /\ call.outcome = "returned"
  /\ ~ call.existed
  /\ removed = {}
  /\ file.kind = "store"
  /\ file.version = "1.0"
  /\ Len(file.adapters) = 1
  /\ StoredAdapter(1) = call.adapter
  /\ call.adapter.strategy = "javascript"

\* --------------------------------------------------------------------- dedup
NoUrlTwice(urls) == \A i, j \in 1..Len(urls) : urls[i] = urls[j] => i = j

SameHrefThreeTimes ==
  Len(markup) = 3 /\ markup[1] = markup[2] /\ markup[2] = markup[3]

\* C22: the URL list of every result of the selector, pattern and dynamic
\* detectors holds no URL twice, and markup that repeats one href three times
\* yields exactly one URL
C22_DedupLaw ==
  detection.strategy # "none" =>
    /\ NoUrlTwice(detection.pdfUrls)
    /\ SameHrefThreeTimes => Len(detection.pdfUrls) = 1

\* -------------------------------------------------------- overlapping writers
WritersSettled ==
  /\ \A w \in 1..MaxWriters : writers[w].pc \in {"idle", "done"}
  /\ \E w \in 1..MaxWriters : writers[w].pc = "done"

\* C23: after overlapping addAdapter calls with distinct ids have all completed,
\* the store is a well-formed collection that holds the adapter of the call
\* whose save ran last and no adapter that none of the calls added
C23_LastWriterWins ==
  WritersSettled =>
    /\ file.kind = "store"
    /\ \E i \in 1..Len(file.adapters) : StoredAdapter(i) = WriterAdapter(lastSaved)
    /\ \A i \in 1..Len(file.adapters) :
         \E w \in 1..MaxWriters : StoredAdapter(i) = WriterAdapter(w)

====
